---- MODULE Spec2Model ----
(***************************************************************************)
(* Model of the timed transfer meters of speedtest_cli.py:                 *)
(* _timed_transfer_download and _timed_transfer_upload.  One measurement   *)
(* call starts max(1, threads) worker threads, every worker transfers      *)
(* until the shared deadline stop_at, folds its local byte counter into    *)
(* bytes_total under bytes_lock, and the caller joins all workers and      *)
(* returns bytes_total * 8 / max(0.001, duration_s).                       *)
(***************************************************************************)
EXTENDS Integers, Sequences, FiniteSets, TLC

(* ---- bounds of the model ---- *)
MaxThreads == 2      \* largest value of the threads argument
MaxDuration == 1     \* largest value of the duration_s argument
MaxLate == 1         \* clock ticks the model lets pass after the deadline
MaxReq == 2          \* requests one worker may issue
MaxChunks == 2       \* chunks one response may deliver
MaxUrlLen == 4       \* longest server URL, in tokens
MaxPolls == 3        \* renderings of the spinner

(* ---- program constants ---- *)
sizes == <<350, 500, 750, 1000, 1500, 2000, 2500, 3000, 3500, 4000>>
PayloadLen == 1024 * 256
RunThreads == 4      \* default of the threads parameter of the meters

None == "none"

Modes == {"download", "upload"}
ThreadArgs == (0 - 1)..MaxThreads
DurationArgs == (0 - 1)..MaxDuration
\* len(chunk) of the chunks iter_content may yield: an empty chunk, or the
\* chunk of a transport that delivers 100,000 bytes at a time.
ChunkLens == {0, 100000}
GetErrors == {"connect", "timeout", "status"}
StreamErrors == {"timeout", "stream"}
PostErrors == {"connect", "timeout", "status"}

\* A URL is a sequence of tokens: the separator "/", the file name
\* "upload.php", and "x" for any text that holds neither.
UrlTokens == {"/", "upload.php", "x"}
Urls == UNION {[1..k -> UrlTokens] : k \in 0..MaxUrlLen}
\* The server the meters are run against.
MeasureUrls == {<<"x", "/", "upload.php">>}

\* What the function given to run_with_spinner does: it returns a value or
\* raises an exception.
SpinValues == {"None", "12.5", "results"}
SpinExcs == {"Exception", "KeyboardInterrupt"}
Funcs == ({"return"} \X SpinValues) \cup ({"raise"} \X SpinExcs)

VARIABLES
  mode,         \* which meter is called
  threads,      \* argument threads
  duration_s,   \* argument duration_s
  server_url,   \* server.get("url", "")
  base_url,     \* base_url as derived from server_url
  base_again,   \* base_url as derived from the derived base_url
  ladder,       \* the list sizes of the download meter
  payload,      \* len(payload) of the upload meter
  func,         \* run_with_spinner: what func() does
  spPc,         \* run_with_spinner: position of the calling thread
  taskPc,       \* run_with_spinner: position of the thread running _target
  finished,     \* run_with_spinner: the Event finished is set
  result_container, \* run_with_spinner: <<result_container["value"]>>, or empty
  exc_container,    \* run_with_spinner: <<exc_container["exc"]>>, or empty
  idx,          \* run_with_spinner: renderings so far
  spOut,        \* run_with_spinner: <<"return", value>> or <<"raise", exc>>
  live,         \* run_speedtest: argument live
  do_download,  \* run_speedtest: argument do_download
  do_upload,    \* run_speedtest: argument do_upload
  timeout_s,    \* run_speedtest: argument timeout_s (0 for None)
  rsPc,         \* run_speedtest: position of the calling thread
  direction,    \* run_speedtest: the meter being called, or None
  callPc,       \* run_speedtest: position inside the meter being called
  dlW,          \* run_speedtest: state of every download worker
  ulW,          \* run_speedtest: state of every upload worker
  results,      \* run_speedtest: the directions whose result is set
  now,          \* time.time(), in seconds since the call
  stop_at,      \* deadline
  bytes_total,  \* shared total
  bytes_lock,   \* set of the workers holding bytes_lock
  mainPc,       \* position of the calling thread
  startIdx,     \* number of threads started
  joinIdx,      \* number of threads joined
  result,       \* <<returned rate>>, empty until the call returns
  pc,           \* position of every worker
  n,            \* ladder index of every download worker
  size,         \* size of the request a download worker issued last
  local_bytes,  \* local counter of every worker
  tmp,          \* value of bytes_total read by bytes_total += local_bytes
  reqCount,     \* history: requests issued by the worker
  chunks,       \* history: chunks delivered by the current response
  reqStart,     \* history: local_bytes when the current request was issued
  reqBytes,     \* history: bytes of the chunks read from the current response
  outcome,      \* history: how the last request of the worker ended
  okReqs,       \* history: requests that ended without an error
  partialFails, \* history: requests that failed after bytes of them were read
  folds         \* history: writes of the worker to bytes_total

vars == <<mode, threads, duration_s, server_url, base_url, base_again, ladder,
          payload, func,
          spPc, taskPc, finished, result_container, exc_container, idx, spOut,
          live, do_download, do_upload, timeout_s, rsPc, direction, callPc,
          dlW, ulW, results, now, stop_at, bytes_total, bytes_lock,
          mainPc, startIdx, joinIdx, result, pc, n, size, local_bytes, tmp,
          reqCount, chunks, reqStart, reqBytes, outcome, okReqs,
          partialFails, folds>>

mainVars == <<mainPc, startIdx, joinIdx, result>>
urlVars == <<server_url, base_url, base_again>>
spinVars == <<func, spPc, taskPc, finished, result_container, exc_container,
              idx, spOut>>
sharedVars == <<ladder, payload>>
rsVars == <<live, do_download, do_upload, timeout_s, rsPc, direction, callPc,
            dlW, ulW, results>>
argVars == <<mode, threads, duration_s, urlVars, spinVars, sharedVars, rsVars>>
histVars == <<reqCount, chunks, reqStart, reqBytes, outcome, okReqs, partialFails>>

(* ---- pure helpers ---- *)

\* range(max(1, threads))
NumWorkers_noFloor(t) == t
NumWorkers(t) == IF t > 1 THEN t ELSE 1

Workers == 0..(NumWorkers(threads) - 1)

\* base_url.endswith("upload.php"), base_url.endswith("/")
EndsWithUpload(u) == Len(u) > 0 /\ u[Len(u)] = "upload.php"
EndsWithSlash(u) == Len(u) > 0 /\ u[Len(u)] = "/"

\* base_url.rsplit("/", 1)[0]
RSplitHead(u) ==
  LET slashes == {i \in 1..Len(u) : u[i] = "/"}
  IN  IF slashes = {} THEN u
      ELSE SubSeq(u, 1, (CHOOSE i \in slashes : \A j \in slashes : j <= i) - 1)

\* the download base: strip the last path segment of a URL ending in upload.php
DlBase_noCheck(u) == RSplitHead(u)
DlBase(u) == IF EndsWithUpload(u) THEN RSplitHead(u) ELSE u

\* the upload endpoint: append upload.php unless the URL ends with it
UlEndpoint(u) ==
  IF ~EndsWithUpload(u)
    THEN IF EndsWithSlash(u) THEN u \o <<"upload.php">>
                             ELSE u \o <<"/", "upload.php">>
    ELSE u

DeriveUrl(m, u) == IF m = "download" THEN DlBase(u) ELSE UlEndpoint(u)

\* max(0.001, duration_s), in thousandths of a second
MilliDivisor_noFloor(d) == d * 1000
MilliDivisor(d) == IF d * 1000 > 1 THEN d * 1000 ELSE 1

\* (bytes_total * 8) / max(0.001, duration_s) as the fraction num / den
Rate_bytes(total, d) ==
  LET m == MilliDivisor(d)
  IN  IF m % 1000 = 0 THEN [num |-> total, den |-> m \div 1000]
                      ELSE [num |-> total * 1000, den |-> m]
Rate(total, d) ==
  LET m == MilliDivisor(d)
  IN  IF m % 1000 = 0 THEN [num |-> total * 8, den |-> m \div 1000]
                      ELSE [num |-> total * 8 * 1000, den |-> m]

\* n = idx % len(sizes)
StartIndex_zero(i) == 0
StartIndex(i) == i % Len(sizes)

\* n = (n + 1) % len(sizes)
NextIndex_stay(i) == i
NextIndex(i) == (i + 1) % Len(sizes)

\* while time.time() < stop_at
BeforeDeadline_inverted(t, deadline) == t > deadline
BeforeDeadline_always(t, deadline) == TRUE
BeforeDeadline(t, deadline) == t < deadline

\* if time.time() >= stop_at: break
AtDeadline_strict(t, deadline) == t > deadline
AtDeadline(t, deadline) == t >= deadline

\* except Exception: pass   -- every transfer error is an Exception
Caught_noStatus(kind) == kind # "status"
Caught(kind) == TRUE

\* the handler leaves local_bytes as the chunk loop left it
AfterFailure_discard(local, start) == start
AfterFailure(local, start) == local

\* resp.raise_for_status() of the POST passed: local_bytes += len(payload)
PostCounted_noStatusCheck(kind) == kind \in {"ok", "status"}
PostCounted(kind) == kind = "ok"

\* with bytes_lock: the lock is acquired only when nobody holds it
LockFree_unguarded(holder) == TRUE
LockFree(holder) == holder = {}

\* bytes_total += local_bytes, from the value read
FoldValue_overwrite(read, local) == local
FoldValue(read, local) == read + local

\* t.join() returns once the thread has terminated
Terminated_nowait(p) == TRUE
Terminated(p) == p \in {"done", "crashed"}

\* run_with_spinner is not in use
SpinIdle ==
  /\ func = <<"return", "None">>
  /\ spPc = "off"
  /\ taskPc = "off"
  /\ finished = FALSE
  /\ result_container = <<>>
  /\ exc_container = <<>>
  /\ idx = 0
  /\ spOut = <<>>

\* run_speedtest is not in use
RsIdle ==
  /\ live = FALSE
  /\ do_download = FALSE
  /\ do_upload = FALSE
  /\ timeout_s = 0
  /\ rsPc = "off"
  /\ direction = None
  /\ callPc = "off"
  /\ dlW = [w \in 0..(RunThreads - 1) |-> "idle"]
  /\ ulW = [w \in 0..(RunThreads - 1) |-> "idle"]
  /\ results = {}

(* ---- initial state: the call with its arguments, after                ---- *)
(* ---- stop_at = time.time() + duration_s; bytes_total = 0; Lock()      ---- *)
Init ==
  /\ mode \in Modes
  /\ threads \in ThreadArgs
  /\ duration_s \in DurationArgs
  /\ server_url \in MeasureUrls
  /\ base_url = DeriveUrl(mode, server_url)
  /\ base_again = <<>>
  /\ ladder = IF mode = "download" THEN sizes ELSE <<>>
  /\ payload = IF mode = "upload" THEN PayloadLen ELSE 0
  /\ SpinIdle
  /\ RsIdle
  /\ now = 0
  /\ stop_at = now + duration_s
  /\ bytes_total = 0
  /\ bytes_lock = {}
  /\ mainPc = "start"
  /\ startIdx = 0
  /\ joinIdx = 0
  /\ result = <<>>
  /\ pc = [w \in Workers |-> "idle"]
  /\ n = [w \in Workers |-> 0]
  /\ size = [w \in Workers |-> 0]
  /\ local_bytes = [w \in Workers |-> 0]
  /\ tmp = [w \in Workers |-> 0]
  /\ reqCount = [w \in Workers |-> 0]
  /\ chunks = [w \in Workers |-> 0]
  /\ reqStart = [w \in Workers |-> 0]
  /\ reqBytes = [w \in Workers |-> 0]
  /\ outcome = [w \in Workers |-> None]
  /\ okReqs = [w \in Workers |-> 0]
  /\ partialFails = [w \in Workers |-> 0]
  /\ folds = [w \in Workers |-> 0]

(* ---- the calling thread ---- *)

\* for t in threads_list: t.start()   -- worker(idx): n = idx % len(sizes)
StartWorker ==
  /\ mainPc = "start"
  /\ IF startIdx < NumWorkers(threads)
       THEN /\ pc' = [pc EXCEPT ![startIdx] = "while"]
            /\ n' = [n EXCEPT ![startIdx] =
                       IF mode = "download" THEN StartIndex(startIdx) ELSE 0]
            /\ local_bytes' = [local_bytes EXCEPT ![startIdx] = 0]
            /\ startIdx' = startIdx + 1
            /\ UNCHANGED mainPc
       ELSE /\ mainPc' = "join"
            /\ UNCHANGED <<pc, n, local_bytes, startIdx>>
  /\ UNCHANGED <<argVars, now, stop_at, bytes_total, bytes_lock, joinIdx,
                 result, size, tmp, histVars, folds>>

\* for t in threads_list: t.join()
Join ==
  /\ mainPc = "join"
  /\ IF joinIdx < NumWorkers(threads)
       THEN /\ Terminated(pc[joinIdx])
            /\ joinIdx' = joinIdx + 1
            /\ UNCHANGED mainPc
       ELSE /\ mainPc' = "return"
            /\ UNCHANGED joinIdx
  /\ UNCHANGED <<argVars, now, stop_at, bytes_total, bytes_lock, startIdx,
                 result, pc, n, size, local_bytes, tmp, histVars, folds>>

\* return (bytes_total * 8) / max(0.001, duration_s)
Return ==
  /\ mainPc = "return"
  /\ result' = <<Rate(bytes_total, duration_s)>>
  /\ mainPc' = "done"
  /\ UNCHANGED <<argVars, now, stop_at, bytes_total, bytes_lock, startIdx,
                 joinIdx, pc, n, size, local_bytes, tmp, histVars, folds>>

\* the clock advances
Tick ==
  /\ mainPc # "done"
  /\ now < stop_at + MaxLate
  /\ now' = now + 1
  /\ UNCHANGED <<argVars, stop_at, bytes_total, bytes_lock, mainVars, pc, n,
                 size, local_bytes, tmp, histVars, folds>>

\* A worker binds none of the closure variables but bytes_total (nonlocal
\* bytes_total): the arguments, the derived URL, sizes, payload and stop_at stay.
WorkerFrame_recompute == stop_at' = now + duration_s /\ UNCHANGED argVars
WorkerFrame == UNCHANGED <<argVars, stop_at>>

(* ---- the download worker ---- *)

\* a request ended with an exception of the given kind
Fail(w, kind) ==
  IF Caught(kind)
    THEN /\ local_bytes' = [local_bytes EXCEPT ![w] = AfterFailure(@, reqStart[w])]
         /\ outcome' = [outcome EXCEPT ![w] = "error"]
         /\ partialFails' = [partialFails EXCEPT ![w] =
                               IF reqBytes[w] > 0 THEN @ + 1 ELSE @]
         /\ n' = [n EXCEPT ![w] = IF mode = "download" THEN NextIndex(@) ELSE @]
         /\ pc' = [pc EXCEPT ![w] = "while"]
    ELSE /\ pc' = [pc EXCEPT ![w] = "crashed"]
         /\ outcome' = [outcome EXCEPT ![w] = "raised"]
         /\ UNCHANGED <<local_bytes, partialFails, n>>

\* a new request is issued
Issue(w) ==
  /\ reqCount[w] < MaxReq
  /\ reqCount' = [reqCount EXCEPT ![w] = @ + 1]
  /\ reqStart' = [reqStart EXCEPT ![w] = local_bytes[w]]
  /\ reqBytes' = [reqBytes EXCEPT ![w] = 0]
  /\ chunks' = [chunks EXCEPT ![w] = 0]
  /\ outcome' = [outcome EXCEPT ![w] = None]

\* while time.time() < stop_at: size = sizes[n]; requests.get(dl_url, ...)
DlWhile(w) ==
  /\ mode = "download"
  /\ pc[w] = "while"
  /\ IF BeforeDeadline(now, stop_at)
       THEN /\ Issue(w)
            /\ size' = [size EXCEPT ![w] = ladder[n[w] + 1]]
            /\ pc' = [pc EXCEPT ![w] = "get"]
       ELSE /\ pc' = [pc EXCEPT ![w] = "fold"]
            /\ UNCHANGED <<size, reqCount, reqStart, reqBytes, chunks, outcome>>
  /\ WorkerFrame
  /\ UNCHANGED <<now, bytes_total, bytes_lock, mainVars, n,
                 local_bytes, tmp, okReqs, partialFails, folds>>

\* requests.get(...) and resp.raise_for_status() complete or raise
DlGet(w) ==
  /\ pc[w] = "get"
  /\ \/ /\ pc' = [pc EXCEPT ![w] = "iter"]
        /\ UNCHANGED <<local_bytes, outcome, partialFails, n>>
     \/ \E kind \in GetErrors : Fail(w, kind)
  /\ WorkerFrame
  /\ UNCHANGED <<now, bytes_total, bytes_lock, mainVars,
                 size, tmp, reqCount, chunks, reqStart, reqBytes, okReqs, folds>>

\* for chunk in resp.iter_content(chunk_size=65536): one step of the iteration
DlIter(w) ==
  /\ pc[w] = "iter"
  /\ \/ \E c \in ChunkLens :
          /\ chunks[w] < MaxChunks
          /\ chunks' = [chunks EXCEPT ![w] = @ + 1]
          /\ IF c = 0
               THEN UNCHANGED <<local_bytes, reqBytes, outcome, okReqs, n, pc>>
               ELSE /\ local_bytes' = [local_bytes EXCEPT ![w] = @ + c]
                    /\ reqBytes' = [reqBytes EXCEPT ![w] = @ + c]
                    /\ IF AtDeadline(now, stop_at)
                         THEN /\ outcome' = [outcome EXCEPT ![w] = "deadline"]
                              /\ okReqs' = [okReqs EXCEPT ![w] = @ + 1]
                              /\ n' = [n EXCEPT ![w] = NextIndex(@)]
                              /\ pc' = [pc EXCEPT ![w] = "while"]
                         ELSE UNCHANGED <<outcome, okReqs, n, pc>>
          /\ UNCHANGED partialFails
     \/ /\ outcome' = [outcome EXCEPT ![w] = "ok"]
        /\ okReqs' = [okReqs EXCEPT ![w] = @ + 1]
        /\ n' = [n EXCEPT ![w] = NextIndex(@)]
        /\ pc' = [pc EXCEPT ![w] = "while"]
        /\ UNCHANGED <<local_bytes, reqBytes, chunks, partialFails>>
     \/ /\ \E kind \in StreamErrors : Fail(w, kind)
        /\ UNCHANGED <<reqBytes, chunks, okReqs>>
  /\ WorkerFrame
  /\ UNCHANGED <<now, bytes_total, bytes_lock, mainVars,
                 size, tmp, reqCount, reqStart, folds>>

(* ---- the upload worker ---- *)

\* while time.time() < stop_at: requests.post(base_url, files=files, ...)
UlWhile(w) ==
  /\ mode = "upload"
  /\ pc[w] = "while"
  /\ IF BeforeDeadline(now, stop_at)
       THEN /\ Issue(w)
            /\ pc' = [pc EXCEPT ![w] = "post"]
       ELSE /\ pc' = [pc EXCEPT ![w] = "fold"]
            /\ UNCHANGED <<reqCount, reqStart, reqBytes, chunks, outcome>>
  /\ WorkerFrame
  /\ UNCHANGED <<now, bytes_total, bytes_lock, mainVars, n,
                 size, local_bytes, tmp, okReqs, partialFails, folds>>

\* requests.post(...) and resp.raise_for_status() complete or raise
UlPost(w) ==
  /\ pc[w] = "post"
  /\ \/ /\ local_bytes' = [local_bytes EXCEPT ![w] =
                             IF PostCounted("ok") THEN @ + payload ELSE @]
        /\ outcome' = [outcome EXCEPT ![w] = "ok"]
        /\ okReqs' = [okReqs EXCEPT ![w] = @ + 1]
        /\ pc' = [pc EXCEPT ![w] = "while"]
        /\ UNCHANGED <<partialFails, n>>
     \/ /\ \E kind \in PostErrors :
             IF PostCounted(kind)
               THEN /\ local_bytes' = [local_bytes EXCEPT ![w] = @ + payload]
                    /\ outcome' = [outcome EXCEPT ![w] = "error"]
                    /\ pc' = [pc EXCEPT ![w] = "while"]
                    /\ UNCHANGED <<partialFails, n>>
               ELSE Fail(w, kind)
        /\ UNCHANGED okReqs
  /\ WorkerFrame
  /\ UNCHANGED <<now, bytes_total, bytes_lock, mainVars,
                 size, tmp, reqCount, chunks, reqStart, reqBytes, folds>>

(* ---- the fold-in of a worker ---- *)

\* with bytes_lock:
Acquire(w) ==
  /\ pc[w] = "fold"
  /\ LockFree(bytes_lock)
  /\ bytes_lock' = bytes_lock \cup {w}
  /\ pc' = [pc EXCEPT ![w] = "add_read"]
  /\ WorkerFrame
  /\ UNCHANGED <<now, bytes_total, mainVars, n, size,
                 local_bytes, tmp, histVars, folds>>

\* bytes_total += local_bytes: the read
AddRead(w) ==
  /\ pc[w] = "add_read"
  /\ tmp' = [tmp EXCEPT ![w] = bytes_total]
  /\ pc' = [pc EXCEPT ![w] = "add_write"]
  /\ WorkerFrame
  /\ UNCHANGED <<now, bytes_total, bytes_lock, mainVars, n,
                 size, local_bytes, histVars, folds>>

\* bytes_total += local_bytes: the write
AddWrite(w) ==
  /\ pc[w] = "add_write"
  /\ bytes_total' = FoldValue(tmp[w], local_bytes[w])
  /\ folds' = [folds EXCEPT ![w] = @ + 1]
  /\ pc' = [pc EXCEPT ![w] = "release"]
  /\ WorkerFrame
  /\ UNCHANGED <<now, bytes_lock, mainVars, n, size,
                 local_bytes, tmp, histVars>>

\* the with block ends: the lock is released and the worker returns
Release(w) ==
  /\ pc[w] = "release"
  /\ bytes_lock' = bytes_lock \ {w}
  /\ pc' = [pc EXCEPT ![w] = "done"]
  /\ WorkerFrame
  /\ UNCHANGED <<now, bytes_total, mainVars, n, size,
                 local_bytes, tmp, histVars, folds>>

(* ---- specification ---- *)

Next ==
  \/ StartWorker
  \/ Join
  \/ Return
  \/ Tick
  \/ \E w \in Workers : DlWhile(w)
  \/ \E w \in Workers : DlGet(w)
  \/ \E w \in Workers : DlIter(w)
  \/ \E w \in Workers : UlWhile(w)
  \/ \E w \in Workers : UlPost(w)
  \/ \E w \in Workers : Acquire(w)
  \/ \E w \in Workers : AddRead(w)
  \/ \E w \in Workers : AddWrite(w)
  \/ \E w \in Workers : Release(w)

Spec == Init /\ [][Next]_vars

\* Threads that can take a step are scheduled, the clock advances, and every
\* request in flight completes or fails (timeout=(3, 3)).
FairSpec == Spec /\ WF_vars(Next)

(* ---- the URL derivation on its own ---- *)

UrlInit ==
  /\ mode \in Modes
  /\ threads = 1
  /\ duration_s = 1
  /\ server_url \in Urls
  /\ base_url = <<>>
  /\ base_again = <<>>
  /\ ladder = <<>>
  /\ payload = 0
  /\ SpinIdle
  /\ RsIdle
  /\ now = 0
  /\ stop_at = 0
  /\ bytes_total = 0
  /\ bytes_lock = {}
  /\ mainPc = "url"
  /\ startIdx = 0
  /\ joinIdx = 0
  /\ result = <<>>
  /\ pc = [w \in Workers |-> "idle"]
  /\ n = [w \in Workers |-> 0]
  /\ size = [w \in Workers |-> 0]
  /\ local_bytes = [w \in Workers |-> 0]
  /\ tmp = [w \in Workers |-> 0]
  /\ reqCount = [w \in Workers |-> 0]
  /\ chunks = [w \in Workers |-> 0]
  /\ reqStart = [w \in Workers |-> 0]
  /\ reqBytes = [w \in Workers |-> 0]
  /\ outcome = [w \in Workers |-> None]
  /\ okReqs = [w \in Workers |-> 0]
  /\ partialFails = [w \in Workers |-> 0]
  /\ folds = [w \in Workers |-> 0]

measureVars == <<now, stop_at, bytes_total, bytes_lock, startIdx, joinIdx,
                 result, pc, n, size, local_bytes, tmp, histVars, folds>>

\* base_url = server.get("url", "") and its derivation
Derive ==
  /\ mainPc = "url"
  /\ base_url' = DeriveUrl(mode, server_url)
  /\ mainPc' = "derived"
  /\ UNCHANGED <<mode, threads, duration_s, server_url, base_again, spinVars, sharedVars, rsVars,
                 measureVars>>

\* the same derivation, given a server whose url is the derived base_url
DeriveAgain ==
  /\ mainPc = "derived"
  /\ base_again' = DeriveUrl(mode, base_url)
  /\ mainPc' = "rederived"
  /\ UNCHANGED <<mode, threads, duration_s, server_url, base_url, spinVars, sharedVars, rsVars,
                 measureVars>>

UrlNext == Derive \/ DeriveAgain

UrlSpec == UrlInit /\ [][UrlNext]_vars

(* ---- run_with_spinner ---- *)

\* except BaseException as e: every exception of func is captured
SpinCaught_onlyException(e) == e = "Exception"
SpinCaught(e) == TRUE

\* result_container.get("value")
ReturnValue_none(rc) == "None"
ReturnValue(rc) == IF rc = <<>> THEN "None" ELSE rc[1]

SpinInit ==
  /\ mode = "download"
  /\ threads = 1
  /\ duration_s = 1
  /\ server_url = <<>>
  /\ base_url = <<>>
  /\ base_again = <<>>
  /\ ladder = <<>>
  /\ payload = 0
  /\ func \in Funcs
  /\ spPc = "start"
  /\ taskPc = "idle"
  /\ finished = FALSE
  /\ result_container = <<>>
  /\ exc_container = <<>>
  /\ idx = 0
  /\ spOut = <<>>
  /\ RsIdle
  /\ now = 0
  /\ stop_at = 0
  /\ bytes_total = 0
  /\ bytes_lock = {}
  /\ mainPc = "spin"
  /\ startIdx = 0
  /\ joinIdx = 0
  /\ result = <<>>
  /\ pc = [w \in Workers |-> "idle"]
  /\ n = [w \in Workers |-> 0]
  /\ size = [w \in Workers |-> 0]
  /\ local_bytes = [w \in Workers |-> 0]
  /\ tmp = [w \in Workers |-> 0]
  /\ reqCount = [w \in Workers |-> 0]
  /\ chunks = [w \in Workers |-> 0]
  /\ reqStart = [w \in Workers |-> 0]
  /\ reqBytes = [w \in Workers |-> 0]
  /\ outcome = [w \in Workers |-> None]
  /\ okReqs = [w \in Workers |-> 0]
  /\ partialFails = [w \in Workers |-> 0]
  /\ folds = [w \in Workers |-> 0]

spinFrame == <<mode, threads, duration_s, urlVars, sharedVars, rsVars, mainPc,
               measureVars>>

\* thread = threading.Thread(target=_target, daemon=True); thread.start()
SpinStart ==
  /\ spPc = "start"
  /\ taskPc' = "run"
  /\ spPc' = "poll"
  /\ UNCHANGED <<func, finished, result_container, exc_container, idx, spOut,
                 spinFrame>>

\* try: result_container["value"] = func()  except BaseException as e: ...
TaskRun ==
  /\ taskPc = "run"
  /\ IF func[1] = "return"
       THEN /\ result_container' = <<func[2]>>
            /\ UNCHANGED exc_container
       ELSE /\ exc_container' = IF SpinCaught(func[2]) THEN <<func[2]>>
                                                       ELSE exc_container
            /\ UNCHANGED result_container
  /\ taskPc' = "finally"
  /\ UNCHANGED <<func, spPc, finished, idx, spOut, spinFrame>>

\* finally: finished.set()
TaskFinally ==
  /\ taskPc = "finally"
  /\ finished' = TRUE
  /\ taskPc' = "ended"
  /\ UNCHANGED <<func, spPc, result_container, exc_container, idx, spOut,
                 spinFrame>>

\* while not finished.is_set():
SpinPoll ==
  /\ spPc = "poll"
  /\ IF ~finished
       THEN idx < MaxPolls /\ spPc' = "render"
       ELSE spPc' = "clear"
  /\ UNCHANGED <<func, taskPc, finished, result_container, exc_container, idx,
                 spOut, spinFrame>>

\* print(...); time.sleep(0.1); idx += 1
SpinRender ==
  /\ spPc = "render"
  /\ idx' = idx + 1
  /\ spPc' = "poll"
  /\ UNCHANGED <<func, taskPc, finished, result_container, exc_container,
                 spOut, spinFrame>>

\* the line is cleared; raise exc_container["exc"] or return the value
SpinFinish ==
  /\ spPc = "clear"
  /\ IF exc_container # <<>>
       THEN /\ spOut' = <<"raise", exc_container[1]>>
            /\ spPc' = "raised"
       ELSE /\ spOut' = <<"return", ReturnValue(result_container)>>
            /\ spPc' = "returned"
  /\ UNCHANGED <<func, taskPc, finished, result_container, exc_container, idx,
                 spinFrame>>

SpinNext ==
  \/ SpinStart
  \/ TaskRun
  \/ TaskFinally
  \/ SpinPoll
  \/ SpinRender
  \/ SpinFinish

SpinSpec == SpinInit /\ [][SpinNext]_vars

(* ---- run_speedtest: the order of the two meters ---- *)

TimeoutArgs == (0 - 1)..1
RunWorkers == 0..(RunThreads - 1)

RunInit ==
  /\ mode = "download"
  /\ threads = 1
  /\ duration_s = 1
  /\ server_url = <<>>
  /\ base_url = <<>>
  /\ base_again = <<>>
  /\ ladder = <<>>
  /\ payload = 0
  /\ func = <<"return", "12.5">>
  /\ spPc = "off"
  /\ taskPc = "off"
  /\ finished = FALSE
  /\ result_container = <<>>
  /\ exc_container = <<>>
  /\ idx = 0
  /\ spOut = <<>>
  /\ live \in BOOLEAN
  /\ do_download \in BOOLEAN
  /\ do_upload \in BOOLEAN
  /\ timeout_s \in TimeoutArgs
  /\ rsPc = "begin"
  /\ direction = None
  /\ callPc = "off"
  /\ dlW = [w \in RunWorkers |-> "idle"]
  /\ ulW = [w \in RunWorkers |-> "idle"]
  /\ results = {}
  /\ now = 0
  /\ stop_at = 0
  /\ bytes_total = 0
  /\ bytes_lock = {}
  /\ mainPc = "run"
  /\ startIdx = 0
  /\ joinIdx = 0
  /\ result = <<>>
  /\ pc = [w \in Workers |-> "idle"]
  /\ n = [w \in Workers |-> 0]
  /\ size = [w \in Workers |-> 0]
  /\ local_bytes = [w \in Workers |-> 0]
  /\ tmp = [w \in Workers |-> 0]
  /\ reqCount = [w \in Workers |-> 0]
  /\ chunks = [w \in Workers |-> 0]
  /\ reqStart = [w \in Workers |-> 0]
  /\ reqBytes = [w \in Workers |-> 0]
  /\ outcome = [w \in Workers |-> None]
  /\ okReqs = [w \in Workers |-> 0]
  /\ partialFails = [w \in Workers |-> 0]
  /\ folds = [w \in Workers |-> 0]

runFrame == <<mode, threads, duration_s, urlVars, sharedVars, mainPc,
              measureVars>>
runArgs == <<live, do_download, do_upload, timeout_s>>

\* if timeout_s and timeout_s > 0
TimedBranch(t) == t > 0

\* The meter of direction dir is called: through run_with_spinner when live,
\* directly otherwise.
BeginMeter(dir) ==
  /\ direction' = dir
  /\ callPc' = "start"
  /\ IF live
       THEN /\ spPc' = "start"
            /\ taskPc' = "idle"
            /\ finished' = FALSE
            /\ result_container' = <<>>
            /\ exc_container' = <<>>
            /\ idx' = 0
            /\ spOut' = <<>>
            /\ UNCHANGED func
       ELSE UNCHANGED spinVars

\* the thread that executes the meter: the caller, or the spinner's task
MeterRuns == live => taskPc = "run"

\* if do_download: ... _timed_transfer_download(best, timeout_s)
RsDownload ==
  /\ rsPc = "begin"
  /\ TimedBranch(timeout_s)
  /\ IF do_download
       THEN /\ BeginMeter("download")
            /\ rsPc' = "dl_meas"
       ELSE /\ rsPc' = "ul_check"
            /\ UNCHANGED <<direction, callPc, spinVars>>
  /\ UNCHANGED <<runArgs, dlW, ulW, results, runFrame>>

\* else: st.download() / st.upload(pre_allocate=False) of the library
RsLibrary ==
  /\ rsPc = "begin"
  /\ ~TimedBranch(timeout_s)
  /\ results' = {d \in {"download", "upload"} :
                   (d = "download" /\ do_download) \/ (d = "upload" /\ do_upload)}
  /\ rsPc' = "end"
  /\ UNCHANGED <<runArgs, direction, callPc, dlW, ulW, spinVars, runFrame>>

\* if do_upload: ... _timed_transfer_upload(best, timeout_s)
RsUpload ==
  /\ rsPc = "ul_check"
  /\ IF do_upload
       THEN /\ BeginMeter("upload")
            /\ rsPc' = "ul_meas"
       ELSE /\ rsPc' = "end"
            /\ UNCHANGED <<direction, callPc, spinVars>>
  /\ UNCHANGED <<runArgs, dlW, ulW, results, runFrame>>

\* for t in threads_list: t.start()
RsStartWorker ==
  /\ callPc = "start"
  /\ MeterRuns
  /\ LET W == IF direction = "download" THEN dlW ELSE ulW
         idle == {w \in RunWorkers : W[w] = "idle"}
     IN  IF idle # {}
           THEN LET k == CHOOSE w \in idle : \A v \in idle : w <= v
                IN  /\ dlW' = IF direction = "download"
                                THEN [dlW EXCEPT ![k] = "running"] ELSE dlW
                    /\ ulW' = IF direction = "upload"
                                THEN [ulW EXCEPT ![k] = "running"] ELSE ulW
                    /\ UNCHANGED callPc
           ELSE /\ callPc' = "join"
                /\ UNCHANGED <<dlW, ulW>>
  /\ UNCHANGED <<runArgs, rsPc, direction, results, spinVars, runFrame>>

\* a worker has left its loop, folded in and returned
RsWorkerDone(w) ==
  /\ \/ /\ dlW[w] = "running"
        /\ dlW' = [dlW EXCEPT ![w] = "done"]
        /\ UNCHANGED ulW
     \/ /\ ulW[w] = "running"
        /\ ulW' = [ulW EXCEPT ![w] = "done"]
        /\ UNCHANGED dlW
  /\ UNCHANGED <<runArgs, rsPc, direction, callPc, results, spinVars, runFrame>>

\* for t in threads_list: t.join(); return ...
RsJoinReturn ==
  /\ callPc = "join"
  /\ MeterRuns
  /\ LET W == IF direction = "download" THEN dlW ELSE ulW
     IN  \A w \in RunWorkers : Terminated(W[w])
  /\ callPc' = "returned"
  /\ IF live
       THEN /\ result_container' = <<func[2]>>
            /\ taskPc' = "finally"
            /\ UNCHANGED <<func, spPc, finished, exc_container, idx, spOut>>
       ELSE UNCHANGED spinVars
  /\ UNCHANGED <<runArgs, rsPc, direction, dlW, ulW, results, runFrame>>

\* st.results.download = float(bps_down) / st.results.upload = float(bps_up)
RsMeterReturned ==
  /\ rsPc \in {"dl_meas", "ul_meas"}
  /\ callPc = "returned"
  /\ live => spPc = "returned"
  /\ results' = results \cup {direction}
  /\ direction' = None
  /\ callPc' = "off"
  /\ rsPc' = IF rsPc = "dl_meas" THEN "ul_check" ELSE "end"
  /\ UNCHANGED <<runArgs, dlW, ulW, spinVars, runFrame>>

RunNext ==
  \/ RsDownload
  \/ RsLibrary
  \/ RsUpload
  \/ RsStartWorker
  \/ \E w \in RunWorkers : RsWorkerDone(w)
  \/ RsJoinReturn
  \/ RsMeterReturned
  \/ SpinStart
  \/ TaskFinally
  \/ SpinPoll
  \/ SpinRender
  \/ SpinFinish

RunSpec == RunInit /\ [][RunNext]_vars

(* ---- definitions used by the properties ---- *)

RECURSIVE SumOver(_, _)
SumOver(f, S) ==
  IF S = {} THEN 0
  ELSE LET x == CHOOSE y \in S : TRUE IN f[x] + SumOver(f, S \ {x})

InFlight(w) == pc[w] \in {"get", "iter", "post"}
Folding(w) == pc[w] \in {"fold", "add_read", "add_write", "release"}
Returned == mainPc = "done"
IndexOf(sz) == CHOOSE i \in 1..Len(sizes) : sizes[i] = sz
ExpectedWorkers == IF threads >= 1 THEN threads ELSE 1

(* ---- properties ---- *)

\* C1: when the call computes its result, bytes_total is the sum of the
\* final local_bytes of all its workers: nothing is lost, nothing counted twice.
C1_TotalIsSum ==
  mainPc \in {"return", "done"} => bytes_total = SumOver(local_bytes, Workers)

C1_Witness ==
  /\ Returned
  /\ Cardinality(Workers) = 2
  /\ local_bytes[0] > 0
  /\ local_bytes[1] > local_bytes[0]

\* C2: every worker writes bytes_total exactly once, after its loop has
\* ended on now >= stop_at, and never while a request of it is in its loop.
C2_FoldOnceAfterLoop ==
  \A w \in Workers :
    /\ folds[w] = (IF pc[w] \in {"release", "done"} THEN 1 ELSE 0)
    /\ (Folding(w) \/ pc[w] = "done") => now >= stop_at
    /\ (InFlight(w) \/ pc[w] \in {"idle", "while"}) => folds[w] = 0

C2_Witness ==
  \E w \in Workers :
    pc[w] = "done" /\ folds[w] = 1 /\ reqCount[w] = 2 /\ local_bytes[w] > 0

\* C3: at most one worker holds bytes_lock, bytes_total is written only by
\* the worker that holds it, and no holder has a request in flight.
C3_LockDiscipline ==
  /\ [](/\ Cardinality(bytes_lock) <= 1
        /\ \A w \in bytes_lock : pc[w] \in {"add_read", "add_write", "release"})
  /\ [][bytes_total' # bytes_total =>
          \E w \in Workers : /\ bytes_lock = {w}
                             /\ pc[w] = "add_write"
                             /\ folds'[w] = folds[w] + 1]_vars

C3_Witness ==
  \E w, v \in Workers :
    /\ bytes_lock = {w}
    /\ pc[w] = "release"
    /\ bytes_total > 0
    /\ InFlight(v)

\* C4: the call reads bytes_total and returns only after every worker it
\* started has terminated with its fold-in done; none runs after the return.
C4_ReturnAfterJoin ==
  mainPc \in {"return", "done"} =>
    /\ startIdx = Cardinality(Workers)
    /\ \A w \in Workers : pc[w] = "done" /\ folds[w] = 1

C4_Witness ==
  /\ Returned
  /\ Cardinality(Workers) = 2
  /\ \A w \in Workers : reqCount[w] > 0

\* C5: for a duration > 0 the returned rate is bytes_total * 8 / duration_s,
\* the requested duration being the divisor whatever time has elapsed; two
\* workers with two chunks of 100,000 bytes each and duration 1 give 3,200,000.
C5_RateFormula ==
  (Returned /\ duration_s > 0) =>
    /\ Len(result) = 1
    /\ result[1].den > 0
    /\ result[1].num * duration_s = bytes_total * 8 * result[1].den
    /\ (/\ duration_s = 1
        /\ Cardinality(Workers) = 2
        /\ \A w \in Workers : local_bytes[w] = 200000)
         => (result[1].num = 3200000 /\ result[1].den = 1)

C5_Witness ==
  /\ Returned
  /\ mode = "download"
  /\ duration_s = 1
  /\ now > stop_at
  /\ Cardinality(Workers) = 2
  /\ \A w \in Workers : local_bytes[w] = 200000 /\ reqCount[w] = 1
  /\ result = <<[num |-> 3200000, den |-> 1]>>

C8_ErrorsAreSwallowed ==
  /\ [](/\ \A w \in Workers : pc[w] # "crashed" /\ outcome[w] # "raised"
        /\ Returned => (Len(result) = 1 /\ \A w \in Workers : folds[w] = 1))
  /\ [][\A w \in Workers :
          /\ (outcome[w] # "error" /\ outcome'[w] = "error") =>
               /\ pc'[w] = "while"
               /\ mode = "download" => n'[w] = (n[w] + 1) % 10
          /\ (pc[w] = "while" /\ pc'[w] # "while" /\ now < stop_at) =>
               pc'[w] \in {"get", "post"}
          /\ (outcome[w] = "error" /\ pc'[w] = "get") =>
               size'[w] = sizes[(IndexOf(size[w]) % 10) + 1]]_vars

C8_Witness ==
  /\ Returned
  /\ \E w \in Workers :
       reqCount[w] = 2 /\ okReqs[w] = 0 /\ folds[w] = 1 /\ pc[w] = "done"
  /\ Len(result) = 1

\* C9: the local counter of an upload worker is 262144 times the number of its
\* POSTs that succeeded; a failed POST adds nothing, and the upload total is a
\* multiple of the payload length.
C9_UploadCountsWholePayloads ==
  mode = "upload" =>
    /\ PayloadLen = 262144
    /\ \A w \in Workers : local_bytes[w] = PayloadLen * okReqs[w]
    /\ bytes_total % PayloadLen = 0

C9_Witness ==
  /\ mode = "upload"
  /\ Returned
  /\ bytes_total = 3 * PayloadLen
  /\ \E w \in Workers : reqCount[w] = 2 /\ okReqs[w] = 1

\* C10: if steps that can be taken are taken (the clock advances, requests in
\* flight complete or fail), every worker leaves its loop and the call returns;
\* a request is issued only before the deadline, so after the deadline a
\* worker only finishes the request it had in flight.
C10_Terminates ==
  /\ <>(Returned /\ \A w \in Workers : pc[w] = "done")
  /\ [][\A w \in Workers :
          /\ reqCount'[w] > reqCount[w] => now < stop_at
          /\ (now >= stop_at /\ ~InFlight(w)) => ~InFlight(w)']_vars

C10_Witness ==
  /\ Returned
  /\ duration_s >= 1
  /\ Cardinality(Workers) = 2
  /\ now > stop_at
  /\ \E w \in Workers : outcome[w] = "deadline"

\* C11: the call never returns before its deadline: a worker is past its loop
\* only with now >= stop_at and the caller is at its return only then; when
\* every request failed at once (no response was ever read) the download meter
\* returns the rate 0.
C11_NoEarlyReturn ==
  /\ mainPc \in {"return", "done"} => now >= stop_at
  /\ \A w \in Workers : pc[w] \in {"fold", "done"} => now >= stop_at
  /\ (/\ Returned
      /\ mode = "download"
      /\ \A w \in Workers : okReqs[w] = 0 /\ reqBytes[w] = 0 /\ partialFails[w] = 0)
       => (Len(result) = 1 /\ result[1].num = 0 /\ result[1].den > 0)

C11_Witness ==
  /\ Returned
  /\ mode = "download"
  /\ duration_s = 1
  /\ now = stop_at
  /\ \A w \in Workers : reqCount[w] = 2 /\ okReqs[w] = 0 /\ chunks[w] = 0
  /\ result = <<[num |-> 0, den |-> 1]>>

\* C12 (as stated): for every server URL, either derivation applied to its
\* own output yields that output again.
C12_DerivationIdempotent ==
  mainPc = "rederived" => base_again = base_url

\* C12 (amended): the upload-endpoint derivation applied to its own output
\* yields the same URL, which ends with upload.php appended at most once; the
\* download-base derivation applied to its own output yields the same URL
\* whenever that output does not itself end with upload.php, and otherwise
\* strips one more path segment.
C12_DerivationIdempotentOnStripped ==
  mainPc = "rederived" =>
    /\ mode = "upload" =>
         /\ base_again = base_url
         /\ EndsWithUpload(base_url)
         /\ Len(base_url) <= Len(server_url) + 2
         /\ SubSeq(base_url, 1, Len(server_url)) = server_url
         /\ EndsWithUpload(server_url) => base_url = server_url
    /\ mode = "download" =>
         /\ ~EndsWithUpload(server_url) => base_url = server_url
         /\ ~EndsWithUpload(base_url) => base_again = base_url
         /\ EndsWithUpload(base_url) => base_again = RSplitHead(base_url)

C12_Witness ==
  /\ mainPc = "rederived"
  /\ mode = "download"
  /\ server_url = <<"x", "/", "upload.php">>
  /\ base_url = <<"x">>
  /\ base_again = base_url

\* C13: an exception raised by the monitored task is captured in the task
\* thread and raised to the caller of run_with_spinner, only after the
\* reporter loop has stopped; when the task raised, no value is returned.
C13_ExceptionReraised ==
  /\ (func[1] = "raise" /\ taskPc \in {"finally", "ended"}) =>
       exc_container = <<func[2]>>
  /\ spOut # <<>> =>
       /\ finished
       /\ taskPc = "ended"
       /\ spPc \in {"returned", "raised"}
  /\ (func[1] = "raise" /\ spPc \in {"returned", "raised"}) =>
       /\ spPc = "raised"
       /\ spOut = <<"raise", func[2]>>
  /\ spPc = "raised" => func[1] = "raise"

C13_Witness ==
  /\ spPc = "raised"
  /\ func = <<"raise", "KeyboardInterrupt">>
  /\ spOut = <<"raise", "KeyboardInterrupt">>
  /\ idx = 2

\* C14: the flag is set only after the task has returned or raised, and on
\* both paths; the reporter goes on to render only from a test that found the
\* flag unset and leaves the loop from the test that finds it set; the value
\* returned is the value the task returned, whatever the number of polls.
C14_FlagAfterTask ==
  /\ [](/\ finished <=> taskPc = "ended"
        /\ taskPc \in {"finally", "ended"} =>
             (result_container # <<>> \/ exc_container # <<>>)
        /\ spPc \in {"clear", "returned", "raised"} => finished
        /\ spPc = "returned" =>
             (func[1] = "return" /\ spOut = <<"return", func[2]>>))
  /\ [][/\ (spPc # "render" /\ spPc' = "render") => (spPc = "poll" /\ ~finished)
        /\ (spPc = "poll" /\ finished) => spPc' \in {"poll", "clear"}
        /\ idx' # idx => (spPc = "render" /\ idx' = idx + 1)]_vars

C14_Witness ==
  /\ spPc = "returned"
  /\ func = <<"return", "12.5">>
  /\ spOut = <<"return", "12.5">>
  /\ idx = MaxPolls

\* C15: a download worker i starts at ladder index i mod 10; every request
\* that ends (completed, failed or abandoned at the deadline) advances the
\* index by one modulo 10; the index stays in 0..9 and the k-th request
\* (k = 0, 1, ...) of worker i asks for sizes[(i + k) mod 10].
C15_LadderIndex ==
  /\ \A i \in 0..9 : NextIndex(i) \in 0..9 /\ NextIndex(i) = (i + 1) % 10
  /\ mode = "download" =>
       \A w \in Workers :
         LET ended == IF InFlight(w) THEN reqCount[w] - 1 ELSE reqCount[w]
         IN  /\ n[w] \in 0..9
             /\ pc[w] # "idle" => n[w] = (w + ended) % 10
             /\ reqCount[w] > 0 =>
                  size[w] = sizes[((w + reqCount[w] - 1) % 10) + 1]

C15_Witness ==
  /\ mode = "download"
  /\ \E w \in Workers :
       /\ w = 1
       /\ pc[w] = "get"
       /\ reqCount[w] = 2
       /\ outcome[w] = None
       /\ partialFails[w] = 1
       /\ size[w] = 750

\* C16 (as stated): after every chunk read at or after the deadline the
\* worker reads no further chunk of that response.
C16_EveryChunkRechecks ==
  [][\A w \in Workers :
       (pc[w] = "iter" /\ chunks'[w] > chunks[w] /\ now >= stop_at) =>
         pc'[w] # "iter"]_vars

\* C16 (amended): the deadline is re-checked after every non-empty chunk (an
\* empty chunk is skipped without a check): a non-empty chunk read before the
\* deadline lets the iteration go on; once a non-empty chunk has been read at
\* or after the deadline the worker reads no further chunk of that response and
\* issues no new request, and the bytes of all chunks read from that response,
\* the last one included, stay in its local counter.
C16_NonEmptyChunkRechecks ==
  /\ [][\A w \in Workers :
          (pc[w] = "iter" /\ reqBytes'[w] > reqBytes[w]) =>
            IF now >= stop_at
              THEN /\ pc'[w] = "while"
                   /\ outcome'[w] = "deadline"
                   /\ local_bytes'[w] = reqStart[w] + reqBytes'[w]
              ELSE pc'[w] = "iter" /\ outcome'[w] = None]_vars
  /\ [](\A w \in Workers :
          outcome[w] = "deadline" =>
            /\ now >= stop_at
            /\ ~InFlight(w)
            /\ reqBytes[w] > 0
            /\ local_bytes[w] = reqStart[w] + reqBytes[w])

C16_Witness ==
  \E w \in Workers :
    /\ outcome[w] = "deadline"
    /\ pc[w] = "done"
    /\ chunks[w] = 2
    /\ reqBytes[w] = 200000
    /\ reqStart[w] = 100000
    /\ local_bytes[w] = 300000

\* C17: for every integer duration, 0 and negative ones included, the divisor
\* is max(0.001, duration): the duration when it is >= 1 and 0.001 otherwise;
\* it is never 0, and the rate returned is a number >= 0.
C17_DivisorFloor ==
  /\ \A d \in DurationArgs :
       /\ MilliDivisor(d) > 0
       /\ d >= 1 => MilliDivisor(d) = d * 1000
       /\ d < 1 => MilliDivisor(d) = 1
  /\ Returned =>
       /\ Len(result) = 1
       /\ result[1].den > 0
       /\ result[1].num >= 0
       /\ IF duration_s >= 1
            THEN result[1].num * duration_s = bytes_total * 8 * result[1].den
            ELSE result[1].num = bytes_total * 8 * 1000 * result[1].den

C17_Witness ==
  /\ Returned
  /\ duration_s = 0
  /\ threads = 2
  /\ now = stop_at
  /\ result = <<[num |-> 0, den |-> 1]>>

\* C18: during a measurement the deadline, the derived URL, the size ladder
\* and the payload keep the values computed before the first worker started,
\* and a step of a worker leaves the counters of the other workers alone.
C18_SharedReadOnly ==
  /\ [](/\ stop_at = duration_s
        /\ base_url = DeriveUrl(mode, server_url)
        /\ mode = "download" => ladder = sizes
        /\ mode = "upload" => payload = PayloadLen)
  /\ [][/\ UNCHANGED <<stop_at, server_url, base_url, ladder, payload>>
        /\ UNCHANGED <<mode, threads, duration_s>>
        /\ \A w \in Workers :
             (pc'[w] # pc[w] /\ pc[w] # "idle") =>
               \A v \in Workers \ {w} :
                 /\ local_bytes'[v] = local_bytes[v]
                 /\ n'[v] = n[v]
                 /\ pc'[v] = pc[v]]_vars

C18_Witness ==
  /\ Returned
  /\ mode = "download"
  /\ Cardinality(Workers) = 2
  /\ \A w \in Workers : reqCount[w] = 2 /\ local_bytes[w] > 0
  /\ now > stop_at
  /\ stop_at = 1
  /\ base_url = <<"x">>
  /\ ladder = sizes

\* C19: a measurement starts max(1, threads) workers: threads of them when
\* threads >= 1, one when threads is 0 or negative; the set of workers is
\* fixed before the first is started, they are started one by one, and the
\* caller waits for them only when all are started.
C19_WorkerCount ==
  /\ [](/\ Workers = 0..(ExpectedWorkers - 1)
        /\ DOMAIN pc = 0..(ExpectedWorkers - 1)
        /\ startIdx \in 0..ExpectedWorkers
        /\ {w \in DOMAIN pc : pc[w] # "idle"} = 0..(startIdx - 1)
        /\ mainPc \in {"join", "return", "done"} => startIdx = ExpectedWorkers)
  /\ [][/\ DOMAIN pc' = DOMAIN pc
        /\ threads' = threads
        /\ startIdx' \in {startIdx, startIdx + 1}]_vars

C19_Witness ==
  /\ Returned
  /\ threads = 0 - 1
  /\ DOMAIN pc = {0}
  /\ startIdx = 1
  /\ reqCount[0] = 2

\* C20: with timeout_s > 0 the upload meter starts a worker only after the
\* download meter has returned with all its workers joined, in live and
\* non-live mode, so workers of the two meters never run at the same time; a
\* direction that is disabled starts no worker.
C20_DownloadBeforeUpload ==
  /\ (\E v \in RunWorkers : ulW[v] # "idle") =>
       /\ do_upload /\ timeout_s > 0
       /\ \A w \in RunWorkers : dlW[w] \in {"idle", "done"}
       /\ do_download =>
            /\ "download" \in results
            /\ \A w \in RunWorkers : dlW[w] = "done"
  /\ ~(\E w, v \in RunWorkers : dlW[w] = "running" /\ ulW[v] = "running")
  /\ ~do_download => \A w \in RunWorkers : dlW[w] = "idle"
  /\ ~do_upload => \A w \in RunWorkers : ulW[w] = "idle"
  /\ "download" \in results => do_download
  /\ "upload" \in results => do_upload
  /\ direction = "upload" => rsPc = "ul_meas"

C20_Witness ==
  /\ live
  /\ do_download /\ do_upload
  /\ timeout_s = 1
  /\ rsPc = "ul_meas"
  /\ idx = 1
  /\ \A w \in RunWorkers : dlW[w] = "done"
  /\ ulW[0] = "done" /\ ulW[1] = "running" /\ ulW[3] = "idle"
  /\ results = {"download"}

====
